---------------------------- MODULE Spec2Model ----------------------------
(* The room view of matui (src/widgets/chat.rs): the event store, the      *)
(* assembled message list, member lookups, backward pagination, the read   *)
(* marker and the selection, driven by the entrypoints of Chat.            *)
EXTENDS Integers, Sequences, FiniteSets, TLC

VARIABLES
    events,          \* Chat.events: SortedVec<OrderedEvent>
    messages,        \* Chat.messages: Vec<Message>
    members,         \* Chat.members: Vec<RoomMember>, each modelled by its user id
    in_flight,       \* Chat.in_flight: Vec<OwnedUserId>
    next_cursor,     \* Chat.next_cursor: Option<String>
    fetching,        \* Chat.fetching: Cell<bool>
    focus,           \* Chat.focus
    read_to,         \* Chat.read_to: Option<OwnedEventId>
    selected,        \* Chat.list_state.selected(): Option<usize>
    fetch_requests,  \* cursors of the matrix.fetch_messages calls not yet answered
    member_requests, \* user ids of the matrix.fetch_room_member calls not yet answered
    build,           \* the build profile, "any" until an overflow has told which it is
    panicked,        \* the thread owning the view has panicked
    scenario,        \* which events the backend can deliver in this behaviour
    last,            \* the entrypoint that ran last, with what it was given
    ui,              \* the editor keys: input polling, the typing heartbeat, what was sent
    backend          \* Matrix: the session file, the client and token cells, its tasks

vars == <<events, messages, members, in_flight, next_cursor, fetching, focus,
          read_to, selected, fetch_requests, member_requests, build, panicked,
          scenario, last, ui, backend>>

-----------------------------------------------------------------------------
(* Bounds of the model.                                                     *)

\* events of a scenario the store may hold (duplicates counted)
MaxEvents == 3
\* events of a scenario one batch may carry
MaxBatch == 2
\* the selection is not moved up beyond this index
MaxSel == 2
\* known-member entries
MaxMembers == 3
\* typing notifications one heartbeat thread sends
MaxBeats == 2
\* submissions of the sign-in form
MaxLogins == 2

(* Program constants.                                                       *)

\* the fetch-ahead threshold of try_fetch_previous
FetchThreshold == 25
\* sync: `for _ in 0..10`
SyncAttempts == 10
\* stands for usize::MAX; every other number of the model is far below it
UsizeMax == 2147483647
\* ListState::default().selected() = None and Option<OwnedEventId> = None
NoSel == -1
NoEvent == 0

None == "None"
Users == {"A", "B"}
\* "debug": an overflowing subtraction panics; "release": it wraps
Builds == {"debug", "release"}
\* the profiles a behaviour that has so far shown `known` can still be of
Profiles(known) == IF known = "any" THEN Builds ELSE {known}

-----------------------------------------------------------------------------
(* Events. id orders as the event id does, ts is origin_server_ts.          *)

Ev(id, ts, sender, kind, target, body) ==
    [id |-> id, ts |-> ts, sender |-> sender, kind |-> kind,
     target |-> target, body |-> body]

R1 == Ev(1, 31, "A", "root", NoEvent, "hi")
R2 == Ev(2, 32, "A", "root", NoEvent, "yo")
R3 == Ev(3, 32, "A", "root", NoEvent, "ok")
DR1 == Ev(4, 33, "A", "redact", 1, "")
X5 == Ev(5, 32, "B", "react", 1, "+")
DX5 == Ev(6, 33, "B", "redact", 5, "")
X7 == Ev(7, 33, "A", "react", 1, "+")
E8 == Ev(8, 32, "A", "edit", 1, "hi!")
E9 == Ev(9, 32, "A", "edit", 1, "hi?")
E10 == Ev(10, 33, "A", "edit", 1, "hi.")

\* a block of FetchThreshold older root messages, delivered by one batch
Filler(i) == Ev(100 + i, i, "A", "root", NoEvent, "old")
Bulk == [i \in 1..FetchThreshold |-> Filler(i)]
IsFiller(e) == e.id > 100

\* the events the backend holds in each scenario, and whether the room has
\* the block of older messages
ScenarioEvents ==
    [roots  |-> {R1, R2, R3},
     redact |-> {R1, R2, DR1},
     mods   |-> {R1, X5, DX5},
     long   |-> {R1},
     reacts |-> {R1, X5, X7, DX5},
     edits  |-> {R1, E8, E9},
     later  |-> {R1, E8, E10}]
ScenarioBulk == [sc \in DOMAIN ScenarioEvents |-> sc = "long"]

\* the scenarios of the whole view, and those of message assembly alone
Scenarios == {"roots", "redact", "mods", "long"}
AssemblyScenarios == {"reacts", "edits", "later"}

-----------------------------------------------------------------------------
(* Sequence helpers.                                                        *)

Reverse(s) == [i \in 1..Len(s) |-> s[Len(s) + 1 - i]]
InsertAt(s, p, e) == SubSeq(s, 1, p) \o <<e>> \o SubSeq(s, p + 1, Len(s))
Count(s, x) == Cardinality({i \in 1..Len(s) : s[i] = x})
Ids(s) == {s[i].id : i \in 1..Len(s)}

\* the lists of at most n distinct events of S, newest event id first, as a
\* backward fetch returns them
RECURSIVE ListsUpTo(_, _)
ListsUpTo(S, n) ==
    IF n = 0 \/ S = {} THEN {<<>>}
    ELSE {<<>>} \cup
         UNION {{<<x>> \o t : t \in ListsUpTo({y \in S : y.id < x.id}, n - 1)} : x \in S}

-----------------------------------------------------------------------------
(* The event store: SortedVec<OrderedEvent>.                                *)

\* OrderedEvent::cmp compares origin_server_ts and nothing else
cmp(a, b) == IF a.ts < b.ts THEN -1 ELSE IF a.ts > b.ts THEN 1 ELSE 0

\* SortedVec::push: the element goes to a place that keeps the vector sorted
\* by cmp; among elements that compare Equal the place is whichever the
\* binary search of the library lands on.
push(store, e) ==
    {InsertAt(store, p, e) : p \in {q \in 0..Len(store) :
        /\ \A i \in 1..q : cmp(store[i], e) <= 0
        /\ \A i \in (q + 1)..Len(store) : cmp(store[i], e) >= 0}}

\* the pushes of the loop of batch_event, one event after the other
RECURSIVE push_all(_, _)
push_all(stores, evs) ==
    IF evs = <<>> THEN stores
    ELSE push_all(UNION {push(st, Head(evs)) : st \in stores}, Tail(evs))

-----------------------------------------------------------------------------
(* Message assembly.                                                        *)

DisplayName == [u \in Users |-> IF u = "A" THEN "Alice" ELSE "Bob"]

\* Message::try_from: a root message event becomes a Message, others do not
try_from(e) ==
    [id |-> e.id, sender |-> e.sender, body |-> e.body, edited |-> FALSE,
     reactions |-> <<>>]
IsMessage(e) == e.kind = "root"

FirstWith(s, P(_)) ==
    IF \E i \in 1..Len(s) : P(s[i])
    THEN CHOOSE i \in 1..Len(s) : P(s[i]) /\ \A j \in 1..(i - 1) : ~P(s[j])
    ELSE 0

\* Reaction Add: append to the bucket keyed by body, create it if absent
add_reaction(rs, body, rev) ==
    LET k == FirstWith(rs, LAMBDA r : r.body = body)
    IN IF k = 0 THEN Append(rs, [body |-> body, events |-> <<rev>>])
       ELSE [rs EXCEPT ![k].events = Append(@, rev)]

\* Reaction Remove: drop the ReactionEvent with that id, and emptied buckets
remove_reaction(rs, id) ==
    LET cut == [i \in 1..Len(rs) |->
                  [rs[i] EXCEPT !.events = SelectSeq(@, LAMBDA r : r.id # id)]]
    IN SelectSeq(cut, LAMBDA r : r.events # <<>>)

\* Message::merge_into_message_list: apply one modifier to the message list
merge_into_message_list(msgs, e) ==
    LET k == FirstWith(msgs, LAMBDA m : m.id = e.target)
    IN CASE e.kind = "edit" ->
              IF k = 0 THEN msgs
              ELSE [msgs EXCEPT ![k].body = e.body, ![k].edited = TRUE]
         [] e.kind = "react" ->
              IF k = 0 THEN msgs
              ELSE [msgs EXCEPT ![k].reactions =
                      add_reaction(@, e.body, [sender_id |-> e.sender, id |-> e.id])]
         [] e.kind = "redact" ->
              LET kept == SelectSeq(msgs, LAMBDA m : m.id # e.target)
              IN [i \in 1..Len(kept) |->
                    [kept[i] EXCEPT !.reactions = remove_reaction(@, e.target)]]
         [] OTHER -> msgs

\* the modifier loop run from the newest modifier to the oldest
RECURSIVE apply_modifiers_newest_first(_, _)
apply_modifiers_newest_first(msgs, mods) ==
    IF mods = <<>> THEN msgs
    ELSE merge_into_message_list(
             apply_modifiers_newest_first(msgs, Tail(mods)), Head(mods))

RECURSIVE apply_modifiers(_, _)
apply_modifiers(msgs, mods) ==
    IF mods = <<>> THEN msgs
    ELSE apply_modifiers(merge_into_message_list(msgs, Head(mods)), Tail(mods))

\* Message::update_senders: a known member's id is shown as its display name
update_senders(m, mem) ==
    IF \E i \in 1..Len(mem) : mem[i] = m.sender
    THEN [m EXCEPT !.sender = DisplayName[m.sender]]
    ELSE m

\* Reaction::merge: buckets of the same body collapse into the first of them
RECURSIVE merge(_, _)
merge(done, rs) ==
    IF rs = <<>> THEN done
    ELSE LET r == Head(rs)
             k == FirstWith(done, LAMBDA d : d.body = r.body)
         IN merge(IF k = 0 THEN Append(done, r)
                  ELSE [done EXCEPT ![k].events = @ \o r.events], Tail(rs))

make_message_list(timeline, mem) ==
    LET roots == SelectSeq(timeline, IsMessage)
        stubs == [i \in 1..Len(roots) |-> try_from(roots[i])]
        modifiers == SelectSeq(timeline, LAMBDA e : ~IsMessage(e))
        applied == apply_modifiers(stubs, modifiers)
        named == [i \in 1..Len(applied) |-> update_senders(applied[i], mem)]
        merged == [i \in 1..Len(named) |->
                     [named[i] EXCEPT !.reactions = merge(<<>>, @)]]
    IN Reverse(merged)

-----------------------------------------------------------------------------
(* Helpers of Chat.                                                         *)

\* usize subtraction a - b: the debug build panics when it overflows, the
\* release build wraps modulo UsizeMax + 1
wrapping_sub(a, b) == IF a >= b THEN a - b ELSE UsizeMax - (b - a - 1)

\* check_sender without the look into in_flight
check_sender_no_in_flight(st, e, mem) ==
    IF \E i \in 1..Len(mem) : mem[i] = e.sender THEN st
    ELSE [in_flight |-> Append(st.in_flight, e.sender),
          requests |-> Append(st.requests, e.sender)]

\* Chat::check_sender, on the pair of in_flight and the lookups requested
check_sender(st, e, mem) ==
    IF \E i \in 1..Len(mem) : mem[i] = e.sender THEN st
    ELSE IF \E i \in 1..Len(st.in_flight) : st.in_flight[i] = e.sender THEN st
    ELSE [in_flight |-> Append(st.in_flight, e.sender),
          requests |-> Append(st.requests, e.sender)]

RECURSIVE check_senders(_, _, _)
check_senders(st, evs, mem) ==
    IF evs = <<>> THEN st
    ELSE check_senders(check_sender(st, Head(evs), mem), Tail(evs), mem)

\* Chat::dedupe_events: Vec::dedup_by on self.messages drops each message
\* whose id equals the id of the message before it
dedupe_events(msgs) ==
    LET keep == {i \in 1..Len(msgs) : i = 1 \/ msgs[i].id # msgs[i - 1].id}
        nth(k) == CHOOSE i \in keep : Cardinality({j \in keep : j <= i}) = k
    IN [k \in 1..Cardinality(keep) |-> msgs[nth(k)]]

\* set_fully_read without the test of the focus
set_fully_read_while_blurred(foc, msgs, marker) ==
    LET head == IF msgs = <<>> THEN NoEvent ELSE msgs[1].id
    IN IF head = marker \/ head = NoEvent
       THEN [read_to |-> marker, receipt |-> NoEvent]
       ELSE [read_to |-> head, receipt |-> head]

\* Chat::set_fully_read: the marker after the call and the receipt sent
set_fully_read(foc, msgs, marker) ==
    LET head == IF msgs = <<>> THEN NoEvent ELSE msgs[1].id
    IN IF ~foc \/ head = marker \/ head = NoEvent
       THEN [read_to |-> marker, receipt |-> NoEvent]
       ELSE [read_to |-> head, receipt |-> head]

\* batch_event looks for more only when the batch made the list longer
made_progress_always(len, previous_count) == TRUE
made_progress(len, previous_count) == len > previous_count

\* try_fetch_previous without the test of the fetching flag
try_fetch_previous_ignoring_flag(cursor, busy, len, sel, bld) ==
    LET index == IF sel = NoSel THEN 0 ELSE sel
        buffer == wrapping_sub(len, index)
    IN IF cursor = None
       THEN [overflow |-> FALSE, panic |-> FALSE, fetch |-> FALSE]
       ELSE IF len < index /\ bld = "debug"
       THEN [overflow |-> TRUE, panic |-> TRUE, fetch |-> FALSE]
       ELSE [overflow |-> len < index, panic |-> FALSE,
             fetch |-> buffer < FetchThreshold]

\* try_fetch_previous without the test of the cursor
try_fetch_previous_ignoring_cursor(cursor, busy, len, sel, bld) ==
    LET index == IF sel = NoSel THEN 0 ELSE sel
        buffer == wrapping_sub(len, index)
    IN IF busy
       THEN [overflow |-> FALSE, panic |-> FALSE, fetch |-> FALSE]
       ELSE IF len < index /\ bld = "debug"
       THEN [overflow |-> TRUE, panic |-> TRUE, fetch |-> FALSE]
       ELSE [overflow |-> len < index, panic |-> FALSE,
             fetch |-> buffer < FetchThreshold]

\* Chat::try_fetch_previous: whether the subtraction overflows, whether the
\* call panics, and whether it fetches
try_fetch_previous(cursor, busy, len, sel, bld) ==
    LET index == IF sel = NoSel THEN 0 ELSE sel
        buffer == wrapping_sub(len, index)
    IN IF cursor = None \/ busy
       THEN [overflow |-> FALSE, panic |-> FALSE, fetch |-> FALSE]
       ELSE IF len < index /\ bld = "debug"
       THEN [overflow |-> TRUE, panic |-> TRUE, fetch |-> FALSE]
       ELSE [overflow |-> len < index, panic |-> FALSE,
             fetch |-> buffer < FetchThreshold]

\* Chat::next: whether the subtraction overflows, whether the call panics,
\* and the index selected afterwards
next(sel, len, bld) ==
    LET top == wrapping_sub(len, 1)
    IN IF sel = NoSel THEN [overflow |-> FALSE, panic |-> FALSE, sel |-> 0]
       ELSE IF len < 1 /\ bld = "debug"
       THEN [overflow |-> TRUE, panic |-> TRUE, sel |-> sel]
       ELSE [overflow |-> len < 1, panic |-> FALSE,
             sel |-> IF sel >= top THEN top ELSE sel + 1]

\* Chat::previous
previous(sel) == IF sel = NoSel \/ sel = 0 THEN 0 ELSE sel - 1

\* what `last` keeps of a call: the entrypoint, the message count before it,
\* whether every event given was already stored, the cursor given and the
\* read receipt sent
Note(op, prev, dup, cursor, receipt) ==
    [op |-> op, prev |-> prev, dup |-> dup, cursor |-> cursor, receipt |-> receipt]

-----------------------------------------------------------------------------
(* The state after Chat::new: the first fetch is on its way.                *)

\* before any editor key: polling runs, no heartbeat thread, nothing sent
NoKeys ==
    [pc |-> "idle", key |-> "none", outcome |-> "none", parked |-> FALSE,
     entered |-> FALSE, redraw |-> FALSE, request |-> "none",
     hb |-> "none", chan |-> FALSE, stopped |-> FALSE, typing |-> <<>>]

InitChat(scenarios) ==
    /\ events = <<>>
    /\ messages = <<>>
    /\ members = <<>>
    /\ in_flight = <<>>
    /\ next_cursor = None
    /\ fetching = TRUE
    /\ focus = TRUE
    /\ read_to = NoEvent
    /\ selected = NoSel
    /\ fetch_requests = <<None>>
    /\ member_requests = <<>>
    /\ build = "any"
    /\ panicked = FALSE
    /\ scenario \in scenarios
    /\ last = Note("new", 0, FALSE, None, NoEvent)
    /\ ui = NoKeys

\* Matrix::new: nothing called yet, both cells empty
NoBackend ==
    [session |-> FALSE, client |-> FALSE, token |-> FALSE, tasks |-> <<>>]

InitIn(scenarios) == InitChat(scenarios) /\ backend = NoBackend

Init == InitIn(Scenarios)

Universe == ScenarioEvents[scenario]
Stored == Cardinality({i \in 1..Len(events) : ~IsFiller(events[i])})
BulkStored == Cardinality({i \in 1..Len(events) : IsFiller(events[i])})

\* Chat::timeline_event for an event of this room
timeline_event(e) ==
    /\ ~panicked
    /\ Stored < MaxEvents
    /\ LET st == check_sender([in_flight |-> in_flight, requests |-> member_requests],
                              e, members)
       IN /\ in_flight' = st.in_flight
          /\ member_requests' = st.requests
    /\ \E store \in push(events, e) :
          \* dedupe_events works on the old message list, which is replaced
          LET msgs == make_message_list(store, members)
              read == set_fully_read(focus, msgs, read_to)
          IN /\ events' = store
             /\ messages' = msgs
             /\ read_to' = read.read_to
             /\ last' = Note("timeline", Len(messages), e.id \in Ids(events),
                             None, read.receipt)
    /\ UNCHANGED <<members, next_cursor, fetching, focus, selected,
                   fetch_requests, build, panicked, scenario, ui, backend>>

TimelineEvent == \E e \in Universe : timeline_event(e)

TimelineEventOtherRoom ==
    /\ ~panicked
    /\ last' = Note("timeline_other", Len(messages), FALSE, None, NoEvent)
    /\ UNCHANGED <<events, messages, members, in_flight, next_cursor, fetching,
                   focus, read_to, selected, fetch_requests, member_requests,
                   build, panicked, scenario, ui, backend>>

\* the contents a batch can have in each scenario
BatchLists ==
    [sc \in DOMAIN ScenarioEvents |->
        ListsUpTo(ScenarioEvents[sc], MaxBatch)
        \cup (IF ScenarioBulk[sc] THEN {Bulk} ELSE {})]

\* the token that follows a cursor in the history of the room
NextToken(c) == IF c = None THEN "tok1" ELSE IF c = "tok1" THEN "tok2" ELSE None

\* the batches the backend can answer the oldest fetch with: a part of the
\* history (the block of older messages once only), and the token to continue
\* from or None when nothing is left
Batches ==
    {[cursor |-> c, events |-> evs] :
        c \in {NextToken(Head(fetch_requests)), None},
        evs \in {l \in BatchLists[scenario] :
                    IF l = Bulk THEN BulkStored = 0
                    ELSE Stored + Len(l) <= MaxEvents}}

\* Chat::batch_event for a batch of this room, the answer to the oldest fetch
batch_event(batch) ==
    /\ ~panicked
    /\ fetch_requests # <<>>
    /\ next_cursor' = batch.cursor
    /\ LET st == check_senders([in_flight |-> in_flight, requests |-> member_requests],
                               batch.events, members)
       IN /\ in_flight' = st.in_flight
          /\ member_requests' = st.requests
    /\ \E store \in push_all({events}, batch.events), bld \in Profiles(build) :
          LET previous_count == Len(messages)
              reset == dedupe_events(messages) = <<>>
              msgs == make_message_list(store, members)
              read == set_fully_read(focus, msgs, read_to)
              sel == IF reset THEN 0 ELSE selected
              try == IF made_progress(Len(msgs), previous_count)
                     THEN try_fetch_previous(batch.cursor, FALSE, Len(msgs), sel, bld)
                     ELSE [overflow |-> FALSE, panic |-> FALSE, fetch |-> FALSE]
          IN /\ events' = store
             /\ messages' = msgs
             /\ read_to' = read.read_to
             /\ selected' = sel
             /\ build' = IF try.overflow THEN bld ELSE build
             /\ panicked' = try.panic
             /\ fetching' = try.fetch
             /\ fetch_requests' = IF try.fetch
                                  THEN Append(Tail(fetch_requests), batch.cursor)
                                  ELSE Tail(fetch_requests)
             /\ last' = Note("batch", previous_count,
                             batch.events # <<>> /\ Ids(batch.events) \subseteq Ids(events),
                             batch.cursor, read.receipt)
    /\ UNCHANGED <<members, focus, scenario, ui, backend>>

BatchEvent == fetch_requests # <<>> /\ \E batch \in Batches : batch_event(batch)

\* a batch_event that clears the flag before it looks at the room
BatchEventOtherRoom_clearing_flag ==
    /\ ~panicked
    /\ fetching' = FALSE
    /\ last' = Note("batch_other", Len(messages), FALSE, None, NoEvent)
    /\ UNCHANGED <<events, messages, members, in_flight, next_cursor,
                   focus, read_to, selected, fetch_requests, member_requests,
                   build, panicked, scenario, ui, backend>>

\* Chat::batch_event for a batch of another room
BatchEventOtherRoom ==
    /\ ~panicked
    /\ last' = Note("batch_other", Len(messages), FALSE, None, NoEvent)
    /\ UNCHANGED <<events, messages, members, in_flight, next_cursor, fetching,
                   focus, read_to, selected, fetch_requests, member_requests,
                   build, panicked, scenario, ui, backend>>

\* Matrix::fetch_messages fails: an Error event goes to the application and
\* no batch is delivered
FetchFailed ==
    /\ ~panicked
    /\ fetch_requests # <<>>
    /\ fetch_requests' = Tail(fetch_requests)
    /\ last' = Note("fetch_failed", Len(messages), FALSE, None, NoEvent)
    /\ UNCHANGED <<events, messages, members, in_flight, next_cursor, fetching,
                   focus, read_to, selected, member_requests, build, panicked,
                   scenario, ui, backend>>

\* Chat::room_member_event for this room, the answer to a lookup
room_member_event(u) ==
    /\ ~panicked
    /\ \E i \in 1..Len(member_requests) :
          /\ member_requests[i] = u
          /\ member_requests' = SubSeq(member_requests, 1, i - 1)
                                \o SubSeq(member_requests, i + 1, Len(member_requests))
    /\ in_flight' = SelectSeq(in_flight, LAMBDA id : id # u)
    /\ members' = Append(members, u)
    /\ messages' = make_message_list(events, members')
    /\ last' = Note("member", Len(messages), FALSE, None, NoEvent)
    /\ UNCHANGED <<events, next_cursor, fetching, focus, read_to, selected,
                   fetch_requests, build, panicked, scenario, ui, backend>>

RoomMemberEvent == \E u \in Users : room_member_event(u)

RoomMemberEventOtherRoom ==
    /\ ~panicked
    /\ last' = Note("member_other", Len(messages), FALSE, None, NoEvent)
    /\ UNCHANGED <<events, messages, members, in_flight, next_cursor, fetching,
                   focus, read_to, selected, fetch_requests, member_requests,
                   build, panicked, scenario, ui, backend>>

\* Chat::key_event for 'k' or Up: next, then try_fetch_previous
KeyUp ==
    /\ ~panicked
    /\ selected < MaxSel
    /\ \E bld \in Profiles(build) :
          LET moved == next(selected, Len(messages), bld)
              try == IF moved.panic
                     THEN [overflow |-> FALSE, panic |-> TRUE, fetch |-> FALSE]
                     ELSE try_fetch_previous(next_cursor, fetching, Len(messages),
                                             moved.sel, bld)
          IN /\ selected' = moved.sel
             /\ build' = IF moved.overflow \/ try.overflow THEN bld ELSE build
             /\ panicked' = try.panic
             /\ fetching' = (fetching \/ try.fetch)
             /\ fetch_requests' = IF try.fetch
                                  THEN Append(fetch_requests, next_cursor)
                                  ELSE fetch_requests
    /\ last' = Note("key_up", Len(messages), FALSE, None, NoEvent)
    /\ UNCHANGED <<events, messages, members, in_flight, next_cursor, focus,
                   read_to, member_requests, scenario, ui, backend>>

\* Chat::key_event for 'j' or Down: previous
KeyDown ==
    /\ ~panicked
    /\ selected' = previous(selected)
    /\ last' = Note("key_down", Len(messages), FALSE, None, NoEvent)
    /\ UNCHANGED <<events, messages, members, in_flight, next_cursor, fetching,
                   focus, read_to, fetch_requests, member_requests, build,
                   panicked, scenario, ui, backend>>

\* a focus_event that sets the flag and does not call set_fully_read
FocusEvent_without_receipt ==
    /\ ~panicked
    /\ focus' = TRUE
    /\ last' = Note("focus", Len(messages), FALSE, None, NoEvent)
    /\ UNCHANGED <<events, messages, members, in_flight, next_cursor, fetching,
                   read_to, selected, fetch_requests, member_requests, build,
                   panicked, scenario, ui, backend>>

\* Chat::focus_event
FocusEvent ==
    /\ ~panicked
    /\ focus' = TRUE
    /\ LET read == set_fully_read(TRUE, messages, read_to)
       IN /\ read_to' = read.read_to
          /\ last' = Note("focus", Len(messages), FALSE, None, read.receipt)
    /\ UNCHANGED <<events, messages, members, in_flight, next_cursor, fetching,
                   selected, fetch_requests, member_requests, build, panicked,
                   scenario, ui, backend>>

\* Chat::blur_event
BlurEvent ==
    /\ ~panicked
    /\ focus' = FALSE
    /\ last' = Note("blur", Len(messages), FALSE, None, NoEvent)
    /\ UNCHANGED <<events, messages, members, in_flight, next_cursor, fetching,
                   read_to, selected, fetch_requests, member_requests, build,
                   panicked, scenario, ui, backend>>

Next ==
    \/ TimelineEvent
    \/ TimelineEventOtherRoom
    \/ BatchEvent
    \/ BatchEventOtherRoom
    \/ FetchFailed
    \/ RoomMemberEvent
    \/ RoomMemberEventOtherRoom
    \/ KeyUp
    \/ KeyDown
    \/ FocusEvent
    \/ BlurEvent

Spec == Init /\ [][Next]_vars

-----------------------------------------------------------------------------
(* Member resolutions that answer no lookup of this view: room_member_event *)
(* is handed whatever member result reaches the room, a repeated one or one *)
(* asked for by an earlier view of the same room included.                  *)

\* Chat::room_member_event for this room, for a user id no lookup of this
\* view is outstanding for
room_member_event_again(u) ==
    /\ ~panicked
    /\ Len(members) < MaxMembers
    /\ Count(member_requests, u) = 0
    /\ in_flight' = SelectSeq(in_flight, LAMBDA id : id # u)
    /\ members' = Append(members, u)
    /\ messages' = make_message_list(events, members')
    /\ last' = Note("member_again", Len(messages), FALSE, None, NoEvent)
    /\ UNCHANGED <<events, next_cursor, fetching, focus, read_to, selected,
                   fetch_requests, member_requests, build, panicked, scenario,
                   ui, backend>>

RoomMemberEventAgain == \E u \in Users : room_member_event_again(u)

NextResolve ==
    \/ TimelineEvent
    \/ BatchEvent
    \/ RoomMemberEvent
    \/ RoomMemberEventAgain

SpecResolve == Init /\ [][NextResolve]_vars

-----------------------------------------------------------------------------
(* Message assembly alone: events that modify a message (reactions, their   *)
(* redactions, edits) reach the view through timeline_event and batch_event *)
(* in any order.                                                            *)

InitAssembly == InitIn(AssemblyScenarios)

NextAssembly ==
    \/ TimelineEvent
    \/ BatchEvent
    \/ RoomMemberEvent

SpecAssembly == InitAssembly /\ [][NextAssembly]_vars

-----------------------------------------------------------------------------
(* The editor keys of Chat::key_event: 'c' edits the selected message, 'i'  *)
(* composes a new one, 'v' views the selected message, 'V' views the room.  *)
(* Each suspends the polling of the terminal (handler.park) around the      *)
(* external editor (get_text).  key_event runs on the thread of the event   *)
(* loop, which handles nothing else until it returns; 'i' starts a thread   *)
(* that repeats the typing notification, stepped here one statement at a    *)
(* time.                                                                    *)

\* get_text: Ok(Some(text)), Ok(None) for a blank text, Err
Outcomes == {"text", "blank", "error"}

\* Chat::selected_message: the place in the list of the selected message,
\* 0 for none
selected_message(msgs, sel) ==
    LET index == IF sel = NoSel THEN 0 ELSE sel
    IN IF msgs = <<>> THEN 0
       ELSE IF index < Len(msgs) THEN index + 1 ELSE 0

\* 'c': what is asked of the server for each result of the editor
edit_request_always(outcome) == "replace"
edit_request(outcome) == IF outcome = "text" THEN "replace" ELSE "none"

\* 'i': what is asked of the server for each result of the editor
compose_request(outcome) == IF outcome = "text" THEN "send" ELSE "none"

\* 'v' and 'V': get_text(..)? returns from key_event on Err, before
\* handler.unpark and the Redraw
view_resumes(outcome) == outcome # "error"

\* the event loop is between two events / and the terminal is polled
InLoop == ui.pc = "idle" /\ ~panicked
Polling == InLoop /\ ~ui.parked

Engine == <<events, messages, members, in_flight, next_cursor, fetching, focus,
            read_to, selected, fetch_requests, member_requests, build,
            panicked, scenario>>

Handled(key, outcome, entered, resumed, request) ==
    [ui EXCEPT !.key = key, !.outcome = outcome, !.entered = entered,
               !.parked = entered /\ ~resumed, !.redraw = entered /\ resumed,
               !.request = request]

\* Chat::key_event for 'c'
KeyEdit ==
    /\ Polling
    /\ IF selected_message(messages, selected) = 0
       THEN ui' = Handled("c", "none", FALSE, FALSE, "none")
       ELSE \E outcome \in Outcomes :
               ui' = Handled("c", outcome, TRUE, TRUE, edit_request(outcome))
    /\ last' = Note("key_c", Len(messages), FALSE, None, NoEvent)
    /\ UNCHANGED <<Engine, backend>>

\* Chat::key_event for 'v'
KeyView ==
    /\ Polling
    /\ IF selected_message(messages, selected) = 0
       THEN ui' = Handled("v", "none", FALSE, FALSE, "none")
       ELSE \E outcome \in Outcomes :
               ui' = Handled("v", outcome, TRUE, view_resumes(outcome), "none")
    /\ last' = Note("key_v", Len(messages), FALSE, None, NoEvent)
    /\ UNCHANGED <<Engine, backend>>

\* Chat::key_event for 'V'
KeyViewRoom ==
    /\ Polling
    /\ \E outcome \in Outcomes :
          ui' = Handled("V", outcome, TRUE, view_resumes(outcome), "none")
    /\ last' = Note("key_V", Len(messages), FALSE, None, NoEvent)
    /\ UNCHANGED <<Engine, backend>>

\* 'i': the channel and the heartbeat thread are created, the polling is
\* suspended and the editor opens.  A session starts once the thread of
\* the session before has ended.
ComposeStart ==
    /\ Polling
    /\ ui.hb \in {"none", "done"}
    /\ ui' = [pc |-> "editor", key |-> "i", outcome |-> "none",
              parked |-> TRUE, entered |-> TRUE, redraw |-> FALSE,
              request |-> "none", hb |-> "poll", chan |-> FALSE,
              stopped |-> FALSE, typing |-> <<>>]
    /\ last' = Note("key_i", Len(messages), FALSE, None, NoEvent)
    /\ UNCHANGED <<Engine, backend>>

\* 'i': get_text(None) returns, handler.unpark
ComposeEditor ==
    /\ ui.pc = "editor"
    /\ \E outcome \in Outcomes :
          ui' = [ui EXCEPT !.outcome = outcome, !.parked = FALSE, !.pc = "stop"]
    /\ UNCHANGED <<Engine, last, backend>>

\* 'i': send.send(())?, an error when the receiving thread is gone
ComposeStop ==
    /\ ui.pc = "stop"
    /\ ui' = IF ui.hb = "done"
             THEN [ui EXCEPT !.pc = "idle"]
             ELSE [ui EXCEPT !.chan = TRUE, !.stopped = TRUE, !.pc = "not_typing"]
    /\ UNCHANGED <<Engine, last, backend>>

\* 'i': matrix.typing_notification(room, false)
ComposeNotTyping ==
    /\ ui.pc = "not_typing"
    /\ ui' = [ui EXCEPT !.typing = Append(@, FALSE), !.pc = "finish"]
    /\ UNCHANGED <<Engine, last, backend>>

\* 'i': the Redraw, then the result of the editor is acted on
ComposeFinish ==
    /\ ui.pc = "finish"
    /\ ui' = [ui EXCEPT !.redraw = TRUE, !.request = compose_request(ui.outcome),
                        !.pc = "idle"]
    /\ UNCHANGED <<Engine, last, backend>>

\* a heartbeat thread that does not look at what try_recv returns
HeartbeatPoll_without_stop ==
    /\ ui.hb = "poll"
    /\ Count(ui.typing, TRUE) < MaxBeats
    /\ ui' = [ui EXCEPT !.hb = "notify"]
    /\ UNCHANGED <<Engine, last, backend>>

\* the heartbeat thread: recv.try_recv() is Empty, or ends the loop
HeartbeatPoll ==
    /\ ui.hb = "poll"
    /\ IF ui.chan
       THEN ui' = [ui EXCEPT !.hb = "done", !.chan = FALSE]
       ELSE /\ Count(ui.typing, TRUE) < MaxBeats
            /\ ui' = [ui EXCEPT !.hb = "notify"]
    /\ UNCHANGED <<Engine, last, backend>>

\* the heartbeat thread: matrix.typing_notification(room, true), then sleep
HeartbeatNotify ==
    /\ ui.hb = "notify"
    /\ ui' = [ui EXCEPT !.typing = Append(@, TRUE), !.hb = "poll"]
    /\ UNCHANGED <<Engine, last, backend>>

Heartbeat == HeartbeatPoll \/ HeartbeatNotify

KeyScenarios == {"redact"}
InitKeys == InitIn(KeyScenarios)

NextKeys ==
    \/ InLoop /\ TimelineEvent
    \/ Polling /\ KeyUp
    \/ KeyEdit
    \/ KeyView
    \/ KeyViewRoom
    \/ ComposeStart
    \/ ComposeEditor
    \/ ComposeStop
    \/ ComposeNotTyping
    \/ ComposeFinish
    \/ HeartbeatPoll
    \/ HeartbeatNotify

SpecKeys == InitKeys /\ [][NextKeys]_vars

\* composition sessions alone; the heartbeat is a thread of its own that
\* the scheduler does not starve
NextCompose ==
    \/ ComposeStart
    \/ ComposeEditor
    \/ ComposeStop
    \/ ComposeNotTyping
    \/ ComposeFinish
    \/ HeartbeatPoll
    \/ HeartbeatNotify

SpecCompose == Init /\ [][NextCompose]_vars /\ WF_vars(Heartbeat)

-----------------------------------------------------------------------------
(* The backend (Matrix): init and login, each of which spawns a task on the *)
(* runtime that sends MatrixEvents to the application.  The tasks share the *)
(* client and sync_token cells (OnceCell: a second set fails, and the       *)
(* `expect` on it panics, which ends the task) and the session file.        *)

\* a task of the backend: what it is, where it is, what it has sent so far,
\* and the state of its call of sync (calls of sync_once made, how many of
\* them failed, whether the token was written to the session file, and
\* what sync returned)
Task(kind) ==
    [kind |-> kind, pc |-> "begin", emitted |-> <<>>,
     attempts |-> 0, failed |-> 0, persisted |-> FALSE, result |-> "none"]

Logins == Cardinality({t \in 1..Len(backend.tasks) : backend.tasks[t].kind = "login"})

\* the sign-in form is shown once init has reported LoginRequired
LoginRequired ==
    /\ backend.tasks # <<>>
    /\ backend.tasks[1].emitted = <<"LoginRequired">>

Emit(task, evs, pc) == [task EXCEPT !.emitted = @ \o evs, !.pc = pc]

Put(t, task) == [backend EXCEPT !.tasks[t] = task]

BackendFrame == UNCHANGED <<Engine, last, ui>>

\* Matrix::init, called once when the application starts: without a session
\* file it sends LoginRequired itself, otherwise it spawns its task
CallInit ==
    /\ backend.tasks = <<>>
    /\ backend' = [backend EXCEPT !.tasks =
          IF backend.session THEN <<Task("init")>>
          ELSE <<Emit(Task("init"), <<"LoginRequired">>, "done")>>]
    /\ BackendFrame

\* Matrix::login, called when the sign-in form is submitted
CallLogin ==
    /\ LoginRequired
    /\ Logins < MaxLogins
    /\ backend' = [backend EXCEPT !.tasks = Append(@, Task("login"))]
    /\ BackendFrame

\* the first statement of a task
TaskBegin(t) ==
    /\ backend.tasks[t].pc = "begin"
    /\ backend' = Put(t, IF backend.tasks[t].kind = "init"
                         THEN Emit(backend.tasks[t], <<"SyncStarted(Latest)">>, "restore")
                         ELSE Emit(backend.tasks[t], <<"LoginStarted">>, "login"))
    /\ BackendFrame

\* init: restore_session(..).await
TaskRestore(t) ==
    /\ backend.tasks[t].pc = "restore"
    /\ \E ok \in BOOLEAN :
          backend' = Put(t, IF ok THEN [backend.tasks[t] EXCEPT !.pc = "set_client"]
                            ELSE Emit(backend.tasks[t], <<"Error">>, "done"))
    /\ BackendFrame

\* login: login(..).await, which writes the session file as its last step
TaskLogin(t) ==
    /\ backend.tasks[t].pc = "login"
    /\ \E ok \in BOOLEAN :
          backend' = IF ok
                     THEN [Put(t, [backend.tasks[t] EXCEPT !.pc = "set_client"])
                             EXCEPT !.session = TRUE]
                     ELSE Put(t, Emit(backend.tasks[t], <<"Error">>, "done"))
    /\ BackendFrame

\* matrix.client.set(client).expect(..), and what login sends after it
TaskSetClient(t) ==
    /\ backend.tasks[t].pc = "set_client"
    /\ backend' =
          IF backend.client
          THEN Put(t, [backend.tasks[t] EXCEPT !.pc = "panicked"])
          ELSE [Put(t, IF backend.tasks[t].kind = "init"
                       THEN [backend.tasks[t] EXCEPT !.pc = "sync"]
                       ELSE Emit(backend.tasks[t],
                                 <<"LoginComplete", "SyncStarted(Initial)">>, "sync"))
                  EXCEPT !.client = TRUE]
    /\ BackendFrame

\* sync: one turn of the loop `for _ in 0..10`, given what sync_once and
\* persist_sync_token return; the bail! after the loop follows the last turn
sync_retrying_persist(task, synced, persisted) ==
    LET n == task.attempts + 1
    IN IF synced /\ persisted
       THEN [task EXCEPT !.attempts = n, !.persisted = TRUE, !.result = "token"]
       ELSE IF n = SyncAttempts
       THEN [task EXCEPT !.attempts = n, !.result = "timeout"]
       ELSE [task EXCEPT !.attempts = n]
sync(task, synced, persisted) ==
    LET n == task.attempts + 1
    IN IF synced
       THEN IF persisted
            THEN [task EXCEPT !.attempts = n, !.persisted = TRUE, !.result = "token"]
            ELSE [task EXCEPT !.attempts = n, !.result = "persist_error"]
       ELSE IF n = SyncAttempts
       THEN [task EXCEPT !.attempts = n, !.failed = @ + 1, !.result = "timeout"]
       ELSE [task EXCEPT !.attempts = n, !.failed = @ + 1]

\* client.sync_once(..).await inside sync, and persist_sync_token after it
TaskSyncOnce(t) ==
    /\ backend.tasks[t].pc = "sync"
    /\ backend.tasks[t].result = "none"
    /\ \E synced \in BOOLEAN, persisted \in BOOLEAN :
          backend' = Put(t, sync(backend.tasks[t], synced, persisted))
    /\ BackendFrame

\* sync has returned: Err is reported, Ok goes on to the token cell
TaskSynced(t) ==
    /\ backend.tasks[t].pc = "sync"
    /\ backend.tasks[t].result # "none"
    /\ backend' = Put(t, IF backend.tasks[t].result = "token"
                         THEN [backend.tasks[t] EXCEPT !.pc = "set_token"]
                         ELSE Emit(backend.tasks[t], <<"Error">>, "done"))
    /\ BackendFrame

\* matrix.sync_token.set(token).expect(..), then SyncComplete
TaskSetToken(t) ==
    /\ backend.tasks[t].pc = "set_token"
    /\ backend' =
          IF backend.token
          THEN Put(t, [backend.tasks[t] EXCEPT !.pc = "panicked"])
          ELSE [Put(t, Emit(backend.tasks[t], <<"SyncComplete">>, "done"))
                  EXCEPT !.token = TRUE]
    /\ BackendFrame

Tasks == 1..Len(backend.tasks)

\* the application starts with or without a session file of an earlier run
InitBackend ==
    /\ InitChat({"roots"})
    /\ \E file \in BOOLEAN : backend = [NoBackend EXCEPT !.session = file]

NextBackend ==
    \/ CallInit
    \/ CallLogin
    \/ \E t \in Tasks : TaskBegin(t)
    \/ \E t \in Tasks : TaskRestore(t)
    \/ \E t \in Tasks : TaskLogin(t)
    \/ \E t \in Tasks : TaskSetClient(t)
    \/ \E t \in Tasks : TaskSyncOnce(t)
    \/ \E t \in Tasks : TaskSynced(t)
    \/ \E t \in Tasks : TaskSetToken(t)

SpecBackend == InitBackend /\ [][NextBackend]_vars

-----------------------------------------------------------------------------
(* Properties of the room view.                                             *)

Index == IF selected = NoSel THEN 0 ELSE selected

RECURSIVE ArrivalOrders(_)
ArrivalOrders(S) ==
    IF S = {} THEN {<<>>}
    ELSE UNION {{<<x>> \o rest : rest \in ArrivalOrders(S \ {x})} : x \in S}

\* C2: the event store holds at most one entry per event id
OneEntryPerEventId ==
    \A i, j \in 1..Len(events) : events[i].id = events[j].id => i = j

\* C1: delivering an event whose id is already stored, by timeline_event or
\* by a batch of such events, leaves the assembled message list as it was
DedupIdempotent ==
    [][(last'.op \in {"timeline", "batch"} /\ last'.dup) => messages' = messages]_vars

\* C3: when every event was delivered once, every order of arrival of the
\* stored events assembles to the message list the view holds
OrderIndependent ==
    (OneEntryPerEventId /\ Len(events) <= MaxEvents) =>
        \A order \in ArrivalOrders({events[i] : i \in 1..Len(events)}) :
            \A store \in push_all({<<>>}, order) :
                make_message_list(store, members) = messages

\* C4: at most one fetch is outstanding, and only while the flag is set; a
\* further fetch goes out only when the flag was clear, and sets it; only a
\* batch of this room clears the flag
OneFetchInFlight ==
    /\ [](Len(fetch_requests) <= 1 /\ (fetch_requests # <<>> => fetching))
    /\ [][/\ Len(fetch_requests') > Len(fetch_requests) => ~fetching /\ fetching'
          /\ (fetching /\ ~fetching') => last'.op = "batch"]_vars

FetchIssuedByScroll ==
    /\ last.op = "key_up"
    /\ next_cursor # None
    /\ fetching
    /\ fetch_requests = <<next_cursor>>

\* C5: a batch after which the list is no longer than before sends no fetch
StallGuard ==
    (last.op = "batch" /\ Len(messages) <= last.prev) =>
        (fetch_requests = <<>> /\ ~fetching)

StalledNearTop ==
    /\ last.op = "batch"
    /\ Len(messages) <= last.prev
    /\ messages # <<>>
    /\ next_cursor # None
    /\ Index <= Len(messages)
    /\ Len(messages) - Index < FetchThreshold
    /\ fetch_requests = <<>>

\* C6: a batch with cursor c whose events are all stored already leaves the
\* message count as it was, stores c and sends no fetch
DuplicateBatchIsQuiet ==
    (last.op = "batch" /\ last.dup /\ last.cursor # None) =>
        /\ Len(messages) = last.prev
        /\ next_cursor = last.cursor
        /\ fetch_requests = <<>>
        /\ ~fetching

\* C7: after a fetch failed the fetching flag is clear and nothing was sent
FailedFetchClearsFlag ==
    last.op = "fetch_failed" => (~fetching /\ fetch_requests = <<>>)

FetchExactlyWhen ==
    [][last'.op = "key_up" =>
          IF next_cursor # None /\ ~fetching
             /\ Len(messages) - selected' < FetchThreshold
          THEN fetch_requests' = Append(fetch_requests, next_cursor) /\ fetching'
          ELSE fetch_requests' = fetch_requests /\ fetching' = fetching]_vars

\* C10: no user id has two lookups outstanding, a lookup outstanding is
\* marked in flight once, and its user is not among the known members
MemberDedup ==
    \A u \in Users :
        /\ Count(member_requests, u) <= 1
        /\ Count(in_flight, u) <= 1
        /\ Count(member_requests, u) = 1 =>
              (Count(in_flight, u) = 1 /\ Count(members, u) = 0)

TwoEventsOneLookup ==
    \E u \in Users :
        /\ Cardinality({i \in 1..Len(events) : events[i].sender = u}) >= 2
        /\ Count(member_requests, u) = 1
        /\ Count(members, u) = 0

\* C11: after any sequence of member resolutions the known members hold at
\* most one entry per user id, and a resolved user id is no longer in flight
OneEntryPerUserId ==
    /\ \A u \in Users : Count(members, u) <= 1
    /\ last.op \in {"member", "member_again"} =>
          \A i \in 1..Len(in_flight) : Count(members, in_flight[i]) = 0

\* C12: a read receipt is sent only while the view has the focus, for the
\* id at the head of the message list, and only when that id differs from
\* the marker; the marker becomes the id sent and changes at no other time,
\* so two receipts in a row never carry the same id
ReceiptOnlyForNewHead ==
    [][/\ last'.receipt # NoEvent =>
             /\ focus'
             /\ messages' # <<>>
             /\ last'.receipt = messages'[1].id
             /\ last'.receipt # read_to
             /\ read_to' = last'.receipt
       /\ last'.receipt = NoEvent => read_to' = read_to]_vars

SecondReceipt ==
    /\ last.receipt # NoEvent
    /\ Len(messages) >= 2
    /\ last.op = "timeline"

\* C13: once key_event has returned from an editor key ('c', 'i', 'v' or
\* 'V') that suspended the polling, the polling has been resumed and a
\* Redraw has been sent, whatever the editor returned
PollingResumed ==
    (ui.pc = "idle" /\ ui.entered) => (~ui.parked /\ ui.redraw)

\* C14: a composition session that has returned has sent the stop signal to
\* its heartbeat thread and then the typing=false notification, whatever
\* the editor returned; typing=false is never sent before the stop signal;
\* and once the stop signal is sent the heartbeat thread ends
HeartbeatStopped ==
    /\ []((ui.key = "i" /\ ui.pc = "idle") =>
            (ui.stopped /\ Count(ui.typing, FALSE) = 1))
    /\ [](Count(ui.typing, FALSE) > 0 => ui.stopped)
    /\ (ui.stopped ~> ui.hb = "done")

FailedEditorSessionOver ==
    /\ ui.key = "i"
    /\ ui.pc = "idle"
    /\ ui.outcome = "error"
    /\ ui.hb = "done"
    /\ Count(ui.typing, TRUE) > 0

\* C15: no step of the 'c' or 'i' key event changes the events, messages,
\* members, in-flight lookups, cursor, fetching flag, read marker or
\* selection, and when the editor returned a blank text or failed, no send
\* or replace request is issued
FailedInputChangesNothing ==
    [][last'.op \in {"key_c", "key_i"} =>
          /\ UNCHANGED <<events, messages, members, in_flight, next_cursor,
                         fetching, read_to, selected>>
          /\ ui'.outcome \in {"blank", "error"} => ui'.request = "none"]_vars

BlankEditRefused ==
    /\ last.op = "key_c"
    /\ ui.outcome = "blank"
    /\ Len(messages) >= 2
    /\ selected = 1
    /\ read_to # NoEvent

\* C16: after 'k' (next) or 'j' (previous) the call has not faulted and the
\* selection index is within the list (0 when the list is empty), and
\* selected_message is none exactly when the list is empty
SelectionInRange ==
    /\ last.op \in {"key_up", "key_down"} =>
          /\ ~panicked
          /\ selected >= 0
          /\ selected <= IF messages = <<>> THEN 0 ELSE Len(messages) - 1
    /\ selected_message(messages, selected) = 0 <=> messages = <<>>

\* the store holds exactly the events of S, each of them once
StoreIs(S) ==
    /\ Len(events) = Cardinality(S)
    /\ {events[i] : i \in 1..Len(events)} = S

\* the reaction buckets of body b on the only message of the list
Buckets(b) ==
    IF Len(messages) # 1 THEN <<>>
    ELSE SelectSeq(messages[1].reactions, LAMBDA r : r.body = b)

\* C17: a reaction "+" by B on a message and the later redaction of that
\* reaction leave the message without a bucket for "+"; reactions "+" by B
\* and by A on a message give it one bucket for "+" that holds both
ReactionLifecycle ==
    /\ StoreIs({R1, X5, DX5}) =>
          (Len(messages) = 1 /\ Buckets("+") = <<>>)
    /\ StoreIs({R1, X5, X7}) =>
          /\ Len(messages) = 1
          /\ Len(Buckets("+")) = 1
          /\ Len(Buckets("+")[1].events) = 2
          /\ {Buckets("+")[1].events[i].id : i \in 1..2} = {X5.id, X7.id}

ReactionRedacted == StoreIs({R1, X5, DX5}) /\ last.op = "timeline"

\* the edits in the store that target the message of id m
EditsOf(m) ==
    {e \in {events[i] : i \in 1..Len(events)} : e.kind = "edit" /\ e.target = m}

\* e is the latest of the edits S: by timestamp, then by event id
Latest(e, S) ==
    \A f \in S : f.ts < e.ts \/ (f.ts = e.ts /\ f.id <= e.id)

\* C18: a message that edits target shows the body of the latest of them,
\* by timestamp and then by event id, whatever the order of arrival (with
\* no event stored twice)
EditPrecedence ==
    OneEntryPerEventId =>
        \A k \in 1..Len(messages) :
            \A e \in EditsOf(messages[k].id) :
                Latest(e, EditsOf(messages[k].id)) => messages[k].body = e.body

\* C19: the store is in ascending order of timestamp, and events of equal
\* timestamp are in ascending order of event id
SortedByTimestampThenId ==
    \A i, j \in 1..Len(events) :
        i < j => \/ events[i].ts < events[j].ts
                 \/ events[i].ts = events[j].ts /\ events[i].id <= events[j].id

\* C20: when a rebuild makes a list with the selection inside it shorter
\* and not empty, the selection index is inside the shorter list afterwards
SelectionClampedOnShrink ==
    [][(/\ Len(messages') < Len(messages)
        /\ messages' # <<>>
        /\ Index < Len(messages))
       => selected' < Len(messages')]_vars

\* C21: whenever try_fetch_previous computes the margin (after 'k' with a
\* cursor and no fetch in flight, or in batch_event after the list grew and
\* the batch carried a cursor), the selected index is at most the number of
\* messages, so that the subtraction does not overflow
MarginNeverUnderflows ==
    [][/\ (last'.op = "key_up" /\ next_cursor # None /\ ~fetching) =>
             selected' <= Len(messages)
       /\ (/\ last'.op = "batch"
           /\ next_cursor' # None
           /\ made_progress(Len(messages'), last'.prev)) =>
             selected' <= Len(messages')]_vars

\* C22: in a composition session no typing=true notification is issued
\* after the typing=false notification
NotTypingIsLast ==
    \A i, j \in 1..Len(ui.typing) :
        (i < j /\ ui.typing[i] = FALSE) => ui.typing[j] = FALSE

\* C23: after timeline_event, batch_event, room_member_event or focus_event
\* has returned, a view that has the focus and a non-empty message list has
\* the id of the head message as its read marker
MarkerFollowsHead ==
    (/\ last.op \in {"timeline", "batch", "member", "focus"}
     /\ ~panicked
     /\ focus
     /\ messages # <<>>) => read_to = messages[1].id

ReportedOnFocus ==
    /\ last.op = "focus"
    /\ last.receipt # NoEvent
    /\ Len(messages) >= 2
    /\ read_to = messages[1].id

\* C24: a live event, a batch or a member result of another room changes
\* nothing of the view (events, messages, members, in-flight lookups, cursor,
\* fetching flag, read marker, selection) and asks nothing of the backend
OtherRoomChangesNothing ==
    [][last'.op \in {"timeline_other", "batch_other", "member_other"} =>
          /\ UNCHANGED <<events, messages, members, in_flight, next_cursor,
                         fetching, read_to, selected>>
          /\ UNCHANGED <<fetch_requests, member_requests>>
          /\ last'.receipt = NoEvent]_vars

OtherRoomBatchWhileFetching ==
    /\ last.op = "batch_other"
    /\ fetching
    /\ fetch_requests # <<>>
    /\ messages # <<>>
    /\ next_cursor # None

\* what a task may have sent when it has ended
Complete(kind) ==
    IF kind = "init"
    THEN {<<"LoginRequired">>,
          <<"SyncStarted(Latest)", "Error">>,
          <<"SyncStarted(Latest)", "SyncComplete">>}
    ELSE {<<"LoginStarted", "Error">>,
          <<"LoginStarted", "LoginComplete", "SyncStarted(Initial)", "Error">>,
          <<"LoginStarted", "LoginComplete", "SyncStarted(Initial)", "SyncComplete">>}

IsPrefix(s, t) == Len(s) <= Len(t) /\ s = SubSeq(t, 1, Len(s))

\* C25: what a backend task has sent is the beginning of one of the fixed
\* sequences of init or of login, and the whole of one once the task has
\* ended; so SyncComplete follows a SyncStarted and nothing follows Error
EmissionOrder ==
    \A t \in Tasks :
        LET task == backend.tasks[t]
        IN /\ \E whole \in Complete(task.kind) : IsPrefix(task.emitted, whole)
           /\ task.pc \in {"done", "panicked"} => task.emitted \in Complete(task.kind)

\* C26: sync calls sync_once at most 10 times; it returns the token at the
\* first call that succeeds, after the token was written to the session
\* file; it returns the timeout error only after 10 failed calls; a token
\* that cannot be written ends it with an error; and once it has returned
\* it makes no further call
SyncIsBounded ==
    /\ [](\A t \in Tasks :
            LET task == backend.tasks[t]
            IN /\ task.attempts <= SyncAttempts
               /\ task.result = "none" => task.failed = task.attempts
               /\ task.result = "token" =>
                     (task.persisted /\ task.failed = task.attempts - 1)
               /\ task.result = "persist_error" =>
                     (~task.persisted /\ task.failed = task.attempts - 1)
               /\ task.result = "timeout" =>
                     (~task.persisted /\ task.failed = SyncAttempts))
    /\ [][\A t \in Tasks :
            backend.tasks[t].result # "none" =>
                /\ backend'.tasks[t].attempts = backend.tasks[t].attempts
                /\ backend'.tasks[t].result = backend.tasks[t].result]_vars

TokenAfterRetries ==
    \E t \in Tasks :
        /\ backend.tasks[t].result = "token"
        /\ backend.tasks[t].failed >= 2
        /\ backend.tasks[t].pc = "done"

=============================================================================
